---- MODULE Spec2Model ----
(***************************************************************************)
(* Model of the Cart engine of ecom-utils (src/src/cart/Cart.ts).          *)
(*                                                                         *)
(* Amounts of money are integers of cents (29.90 is 2990); percentages and *)
(* the tax rate are integers of percent.  A rounding to two decimals is    *)
(* therefore a rounding of a rational number of cents to an integer, done  *)
(* by round as Math.round does it (half towards plus infinity).            *)
(* Fields of Product, CartItem and Discount that the Cart never reads      *)
(* (name, currency, category, addedAt, code) are left out of the records.  *)
(***************************************************************************)
EXTENDS Integers, Sequences, FiniteSets, TLC

VARIABLES items, discount, config, last, totals, shippingCall

vars == <<items, discount, config, last, totals, shippingCall>>

----------------------------------------------------------------------------
(* Bounds of the inputs *)

MaxStock == 2
MaxQty == 2
MaxTime == 1

(* An optional field that is absent (undefined) *)
Undefined == -1

ProductIds == {"1", "2"}
Statuses == {"available", "out_of_stock", "preorder", "discontinued"}

(* unit price of the two products of the tests: 29.90 and 59.90 *)
PriceOf(id) == IF id = "1" THEN 2990 ELSE 5990

Quantities == (-1)..(MaxQty + 1)
Times == 0..MaxTime

(* Product records: any stock and status under either id *)
Products ==
  { [id |-> i, price |-> PriceOf(i), status |-> s, stock |-> k] :
      i \in ProductIds, s \in Statuses, k \in 0..MaxStock }

(* the products used where the discounts vary *)
FewProducts ==
  { [id |-> i, price |-> PriceOf(i), status |-> "available", stock |-> 2] :
      i \in ProductIds }

(* the kinds of discount with their values: 10 % and 15 %, 10.00 and 50.00 *)
TypeValues ==
  { <<"percentage", 10>>, <<"percentage", 15>>,
    <<"fixed_amount", 1000>>, <<"fixed_amount", 5000>>,
    <<"free_shipping", 0>> }

(* Discount records *)
Discounts ==
  { [type |-> tv[1], value |-> tv[2], minOrderAmount |-> m,
     maxDiscountAmount |-> c, endDate |-> e, isActive |-> a] :
      tv \in TypeValues, m \in {Undefined, 5000}, c \in {Undefined, 0, 300},
      e \in {Undefined, 0}, a \in BOOLEAN }

(* the discounts used where the products vary *)
FewDiscounts ==
  { [type |-> "percentage", value |-> 10, minOrderAmount |-> Undefined,
     maxDiscountAmount |-> Undefined, endDate |-> Undefined, isActive |-> TRUE],
    [type |-> "free_shipping", value |-> 0, minOrderAmount |-> 5000,
     maxDiscountAmount |-> Undefined, endDate |-> 0, isActive |-> TRUE],
    [type |-> "fixed_amount", value |-> 1000, minOrderAmount |-> Undefined,
     maxDiscountAmount |-> Undefined, endDate |-> Undefined, isActive |-> FALSE] }

(* Constructor arguments: all options left out, and the options of the demo
   with another tax rate *)
ConfigInputs ==
  { [currency |-> "EUR", taxRate |-> Undefined,
     freeShippingThreshold |-> Undefined, shippingCost |-> Undefined],
    [currency |-> "EUR", taxRate |-> 15,
     freeShippingThreshold |-> 10000, shippingCost |-> 490] }

----------------------------------------------------------------------------
(* Helpers *)

Min(a, b) == IF a <= b THEN a ELSE b

(* a ?? b *)
Coalesce(a, b) == IF a = Undefined THEN b ELSE a

(* JavaScript truthiness of an optional number: undefined and 0 are falsy *)
Truthy(x) == x # Undefined /\ x # 0

(* the record written to last by every operation *)
Ret(op, ret, branch) == [op |-> op, ret |-> ret, branch |-> branch]

----------------------------------------------------------------------------
(* Construction *)

DefaultTaxRate == 20
DefaultFreeShippingThreshold == 5000
DefaultShippingCost == 490

Cart(c) ==
  [ currency |-> c.currency,
    taxRate |-> Coalesce(c.taxRate, DefaultTaxRate),
    freeShippingThreshold |-> Coalesce(c.freeShippingThreshold, DefaultFreeShippingThreshold),
    shippingCost |-> Coalesce(c.shippingCost, DefaultShippingCost) ]

Init ==
  /\ items = <<>>
  /\ discount = <<>>
  /\ \E c \in ConfigInputs : config = Cart(c)
  /\ last = Ret("new", "void", "")
  /\ totals = <<>>
  /\ shippingCall = <<>>

(* the Cart object in the current state *)
cart == [items |-> items, discount |-> discount, config |-> config]

(* what a method leaves behind and returns: the fields of the object after
   the call, the value returned and the place it returned from *)
Outcome(its, disc, this, ret, branch) ==
  [items |-> its, discount |-> disc, config |-> this.config,
   ret |-> ret, branch |-> branch]

(* a call that returns without an assignment *)
Untouched(this, ret, branch) ==
  Outcome(this.items, this.discount, this, ret, branch)

(* the step of the cart that a call with outcome r is *)
Call(op, r) ==
  /\ items' = r.items
  /\ discount' = r.discount
  /\ config' = r.config
  /\ last' = Ret(op, r.ret, r.branch)
  /\ totals' = <<>>
  /\ UNCHANGED shippingCall

----------------------------------------------------------------------------
(* Getters *)

getItems(this) == this.items

RECURSIVE SumQuantity(_)
SumQuantity(its) ==
  IF its = <<>> THEN 0 ELSE Head(its).quantity + SumQuantity(Tail(its))

getItemCount(this) == SumQuantity(this.items)

isEmpty(this) == Len(this.items) = 0

(* the subtotal before reductions and taxes *)
RECURSIVE SumPrice(_)
SumPrice(its) ==
  IF its = <<>> THEN 0
  ELSE Head(its).product.price * Head(its).quantity + SumPrice(Tail(its))

calculateSubtotal(this) == SumPrice(this.items)

----------------------------------------------------------------------------
(* Item management *)

(* a findIndex that looks at the last line only *)
findIndex_lastOnly(its, productId) ==
  IF Len(its) > 0 /\ its[Len(its)].product.id = productId THEN Len(its) ELSE 0

(* Array.findIndex on the product id: the first matching position, 0 for -1 *)
findIndex(its, productId) ==
  IF \E i \in 1..Len(its) : its[i].product.id = productId
  THEN CHOOSE i \in 1..Len(its) :
         /\ its[i].product.id = productId
         /\ \A j \in 1..(i - 1) : its[j].product.id # productId
  ELSE 0

(* a splice that removes the last element, whatever the index *)
splice_last(its, index) == [i \in 1..(Len(its) - 1) |-> its[i]]

(* Array.splice(index, 1) *)
splice(its, index) ==
  [i \in 1..(Len(its) - 1) |-> IF i < index THEN its[i] ELSE its[i + 1]]

(* a quantity check that lets 0 through *)
QuantityInvalid_strict(quantity) == quantity < 0

(* the three validations of addItem *)
QuantityInvalid(quantity) == quantity <= 0

StockInsufficient(product, quantity) == product.stock < quantity

(* a status check that lets available through alone *)
StatusUnavailable_noPreorder(product) == product.status # "available"

StatusUnavailable(product) ==
  product.status # "available" /\ product.status # "preorder"

(* a stock check on the line that exists already that is off by one *)
ExceedsStock_offByOne(product, newQuantity) == newQuantity > product.stock + 1

(* the stock check of addItem on the line that exists already: against the
   stock of the product passed in, not of the product the line holds *)
ExceedsStock(product, newQuantity) == newQuantity > product.stock

(* the stock check of updateQuantity: against the product the line holds *)
ExceedsItemStock(item, quantity) == quantity > item.product.stock

addItem(this, product, quantity) ==
  LET existingIndex == findIndex(this.items, product.id) IN
  IF QuantityInvalid(quantity)
  THEN Untouched(this, "null", "quantity")
  ELSE IF StockInsufficient(product, quantity)
  THEN Untouched(this, "null", "stock")
  ELSE IF StatusUnavailable(product)
  THEN Untouched(this, "null", "status")
  ELSE IF existingIndex # 0
  THEN LET newQuantity == this.items[existingIndex].quantity + quantity IN
       IF ExceedsStock(product, newQuantity)
       THEN Untouched(this, "null", "stock_existing")
       ELSE Outcome([this.items EXCEPT ![existingIndex].quantity = newQuantity],
                    this.discount, this, "item", "existing")
  ELSE Outcome(Append(this.items, [product |-> product, quantity |-> quantity]),
               this.discount, this, "item", "new")

(* a removeItem that drops a discount whose minimum the remaining items no
   longer reach *)
removeItem_rechecksDiscount(this, productId) ==
  LET index == findIndex(this.items, productId) IN
  IF index = 0
  THEN Untouched(this, "false", "not_found")
  ELSE LET rest == splice(this.items, index) IN
       Outcome(rest,
               IF /\ this.discount # <<>>
                  /\ this.discount[1].minOrderAmount > 0
                  /\ SumPrice(rest) < this.discount[1].minOrderAmount
               THEN <<>> ELSE this.discount,
               this, "true", "removed")

removeItem(this, productId) ==
  LET index == findIndex(this.items, productId) IN
  IF index = 0
  THEN Untouched(this, "false", "not_found")
  ELSE Outcome(splice(this.items, index), this.discount, this, "true", "removed")

updateQuantity(this, productId, quantity) ==
  LET index == findIndex(this.items, productId) IN
  IF index = 0
  THEN Untouched(this, "false", "not_found")
  ELSE IF quantity <= 0
  THEN removeItem(this, productId)
  ELSE IF ExceedsItemStock(this.items[index], quantity)
  THEN Untouched(this, "false", "stock")
  ELSE Outcome([this.items EXCEPT ![index].quantity = quantity],
               this.discount, this, "true", "set")

(* a clear that forgets the discount *)
clear_itemsOnly(this) == Outcome(<<>>, this.discount, this, "void", "")

clear(this) == Outcome(<<>>, <<>>, this, "void", "")

----------------------------------------------------------------------------
(* Totals *)

(* a rounding that cuts the fraction of a cent off *)
round_truncating(num, den) == num \div den

(* Math.round(value * 100) / 100 of the amount num/den cents (den > 0):
   the nearest integer of cents, a half going up *)
round(num, den) == (2 * num + den) \div (2 * den)

(* a fixed amount that is not limited to the subtotal *)
RawDiscount_noMin(d, subtotal) ==
  CASE d.type = "percentage" -> subtotal * d.value
    [] d.type = "fixed_amount" -> d.value * 100
    [] d.type = "free_shipping" -> 0

(* the switch of calculateDiscountAmount: the amount of the discount d on
   subtotal, in hundredths of a cent, before the cap and the rounding *)
RawDiscount(d, subtotal) ==
  CASE d.type = "percentage" -> subtotal * d.value
    [] d.type = "fixed_amount" -> Min(d.value, subtotal) * 100
    [] d.type = "free_shipping" -> 0

(* if (this.discount.maxDiscountAmount) *)
CapApplies(d) == Truthy(d.maxDiscountAmount)

calculateDiscountAmount(this, subtotal) ==
  IF this.discount = <<>> THEN 0
  ELSE LET d == this.discount[1]
           discountAmount == RawDiscount(d, subtotal)
       IN  IF CapApplies(d)
           THEN round(Min(discountAmount, d.maxDiscountAmount * 100), 100)
           ELSE round(discountAmount, 100)

(* a test of the kind of discount that never matches *)
FreeShippingDiscount_never(this) == FALSE

(* this.discount?.type === 'free_shipping' *)
FreeShippingDiscount(this) ==
  this.discount # <<>> /\ this.discount[1].type = "free_shipping"

(* a shipping decided on the subtotal before the discount *)
calculateShipping_preDiscount(this, subtotalAfterDiscount) ==
  IF FreeShippingDiscount(this) THEN 0
  ELSE IF calculateSubtotal(this) >= this.config.freeShippingThreshold THEN 0
  ELSE this.config.shippingCost

calculateShipping(this, subtotalAfterDiscount) ==
  IF FreeShippingDiscount(this) THEN 0
  ELSE IF subtotalAfterDiscount >= this.config.freeShippingThreshold THEN 0
  ELSE this.config.shippingCost

calculateTax(this, amount) == round(amount * this.config.taxRate, 100)

(* a getTotals that adds the discount to the subtotal *)
getTotals_addsDiscount(this) ==
  LET subtotal == calculateSubtotal(this)
      discountAmount == calculateDiscountAmount(this, subtotal)
      subtotalAfterDiscount == subtotal + discountAmount
      shipping == calculateShipping(this, subtotalAfterDiscount)
      taxableAmount == subtotalAfterDiscount + shipping
      taxAmount == calculateTax(this, taxableAmount)
      total == round(taxableAmount + taxAmount, 1)
  IN  [ subtotal |-> round(subtotal, 1),
        discountAmount |-> discountAmount,
        shipping |-> shipping,
        taxAmount |-> taxAmount,
        total |-> total,
        itemCount |-> getItemCount(this),
        currency |-> this.config.currency ]

getTotals(this) ==
  LET subtotal == calculateSubtotal(this)
      discountAmount == calculateDiscountAmount(this, subtotal)
      subtotalAfterDiscount == subtotal - discountAmount
      shipping == calculateShipping(this, subtotalAfterDiscount)
      taxableAmount == subtotalAfterDiscount + shipping
      taxAmount == calculateTax(this, taxableAmount)
      total == round(taxableAmount + taxAmount, 1)
  IN  [ subtotal |-> round(subtotal, 1),
        discountAmount |-> discountAmount,
        shipping |-> shipping,
        taxAmount |-> taxAmount,
        total |-> total,
        itemCount |-> getItemCount(this),
        currency |-> this.config.currency ]

----------------------------------------------------------------------------
(* Discount management *)

(* if (discount.endDate && new Date() > discount.endDate): a Date object is
   always truthy, so the test is on the comparison alone *)
Expired(d, now) == d.endDate # Undefined /\ now > d.endDate

(* a minimum that is compared the wrong way round *)
MinimumNotReached_inverted(d, subtotal) ==
  Truthy(d.minOrderAmount) /\ subtotal > d.minOrderAmount

(* if (discount.minOrderAmount && subtotal < discount.minOrderAmount) *)
MinimumNotReached(d, subtotal) ==
  Truthy(d.minOrderAmount) /\ subtotal < d.minOrderAmount

(* now is the instant new Date() reads *)
applyDiscount(this, d, now) ==
  IF ~d.isActive
  THEN Untouched(this, "false", "inactive")
  ELSE IF Expired(d, now)
  THEN Untouched(this, "false", "expired")
  ELSE IF MinimumNotReached(d, calculateSubtotal(this))
  THEN Untouched(this, "false", "minimum")
  ELSE Outcome(this.items, <<d>>, this, "true", "applied")

removeDiscount(this) == Outcome(this.items, <<>>, this, "void", "")

----------------------------------------------------------------------------
(* The cart under every product record and a few discounts *)

AddItem == \E p \in Products, q \in Quantities : Call("addItem", addItem(cart, p, q))

UpdateQuantity ==
  \E id \in ProductIds, q \in Quantities :
    Call("updateQuantity", updateQuantity(cart, id, q))

RemoveItem == \E id \in ProductIds : Call("removeItem", removeItem(cart, id))

Clear == Call("clear", clear(cart))

ApplyDiscount ==
  \E d \in FewDiscounts, now \in Times :
    Call("applyDiscount", applyDiscount(cart, d, now))

RemoveDiscount == Call("removeDiscount", removeDiscount(cart))

(* a getTotals that uses the discount up *)
GetTotals_consumesDiscount ==
  /\ totals' = <<getTotals(cart)>>
  /\ last' = Ret("getTotals", "totals", "")
  /\ discount' = <<>>
  /\ UNCHANGED <<items, config, shippingCall>>

(* getTotals returns a record of numbers, kept in totals until the next
   call of another method, and assigns nothing *)
GetTotals ==
  /\ getTotals(cart).total \in Int
  /\ totals' = <<getTotals(cart)>>
  /\ last' = Ret("getTotals", "totals", "")
  /\ UNCHANGED <<items, discount, config, shippingCall>>

Next ==
  \/ AddItem
  \/ UpdateQuantity
  \/ RemoveItem
  \/ Clear
  \/ ApplyDiscount
  \/ RemoveDiscount
  \/ GetTotals

Spec == Init /\ [][Next]_vars

(* The cart under every discount record and a few products *)

TotalsAddItem ==
  \E p \in FewProducts, q \in Quantities : Call("addItem", addItem(cart, p, q))

TotalsApplyDiscount ==
  \E d \in Discounts, now \in Times :
    Call("applyDiscount", applyDiscount(cart, d, now))

NextTotals ==
  \/ TotalsAddItem
  \/ UpdateQuantity
  \/ RemoveItem
  \/ Clear
  \/ TotalsApplyDiscount
  \/ RemoveDiscount
  \/ GetTotals

SpecTotals == Init /\ [][NextTotals]_vars

(* The cart of a shop whose free-shipping threshold is the price of one of
   its products (59.90), under every discount record *)

EdgeConfigInputs ==
  { [currency |-> "EUR", taxRate |-> 20,
     freeShippingThreshold |-> 5990, shippingCost |-> Undefined] }

InitEdge ==
  /\ items = <<>>
  /\ discount = <<>>
  /\ \E c \in EdgeConfigInputs : config = Cart(c)
  /\ last = Ret("new", "void", "")
  /\ totals = <<>>
  /\ shippingCall = <<>>

SpecEdge == InitEdge /\ [][NextTotals]_vars

----------------------------------------------------------------------------
(* The cart and a caller that writes to what getItems returned *)

(* getItems returns [...this.items]: a new array of the LineItem objects the
   cart holds.  What the caller does next to that array: an assignment to
   the quantity of its i-th LineItem is an assignment to the object in
   this.items; a splice or a reverse of the array changes the copy alone. *)
getItemsThenSetQuantity(this, i, quantity) ==
  Outcome([this.items EXCEPT ![i].quantity = quantity],
          this.discount, this, "items", "set_quantity")

getItemsThenSplice(this, i) == Untouched(this, "items", "splice")

getItemsThenReverse(this) == Untouched(this, "items", "reverse")

GetItemsSetQuantity ==
  \E i \in 1..Len(items), q \in Quantities :
    Call("getItems", getItemsThenSetQuantity(cart, i, q))

GetItemsSplice ==
  \E i \in 1..Len(items) : Call("getItems", getItemsThenSplice(cart, i))

GetItemsReverse == Call("getItems", getItemsThenReverse(cart))

NextAlias ==
  \/ TotalsAddItem
  \/ UpdateQuantity
  \/ RemoveItem
  \/ Clear
  \/ ApplyDiscount
  \/ RemoveDiscount
  \/ GetTotals
  \/ GetItemsSetQuantity
  \/ GetItemsSplice
  \/ GetItemsReverse

SpecAlias == Init /\ [][NextAlias]_vars

----------------------------------------------------------------------------
(* The shipping module: its calculateShipping is Shipping_calculateShipping
   here, Cart.calculateShipping being another function *)

MaxRates == 3

DefaultShippingThreshold == 5000

(* a rate of a zone: id is the place it was given in the zone's list *)
RateBodies == [price : {390, 490, 990}, minDays : {1, 3}]

RateLists ==
  UNION { [1..n -> RateBodies] : n \in 0..MaxRates }

WithIds(rs) ==
  [i \in 1..Len(rs) |->
     [id |-> i, price |-> rs[i].price, minDays |-> rs[i].minDays]]

(* the zone 'world' of defaultShippingZones *)
WorldZone ==
  [ name |-> "International", countries |-> {"*"},
    rates |-> << [id |-> 1, price |-> 1990, minDays |-> 10],
                 [id |-> 2, price |-> 3990, minDays |-> 5] >> ]

(* the lists of zones: a zone of France with any rates, with or without the
   zone 'world' after it *)
ZoneLists ==
  { <<[name |-> "France", countries |-> {"FR"}, rates |-> WithIds(rs)]>> \o w :
      rs \in RateLists, w \in {<<>>, <<WorldZone>>} }

ShippingInputs ==
  [ countryCode : {"fr", "US"},
    orderAmount : {4500, 6000},
    freeShippingThreshold : {Undefined, 6000},
    zones : ZoneLists,
    result : {<<>>} ]

(* String.toUpperCase on the country codes of the inputs *)
toUpperCase(c) == IF c = "fr" THEN "FR" ELSE c

(* Array.find: the first zone whose countries include code, <<>> for none *)
FindZone(zones, code) ==
  IF \E i \in 1..Len(zones) : code \in zones[i].countries
  THEN << zones[CHOOSE i \in 1..Len(zones) :
                  /\ code \in zones[i].countries
                  /\ \A j \in 1..(i - 1) : code \notin zones[j].countries] >>
  ELSE <<>>

findShippingZone(countryCode, zones) ==
  LET code == toUpperCase(countryCode)
      specificZone == FindZone(zones, code)
  IN  IF specificZone # <<>> THEN specificZone ELSE FindZone(zones, "*")

(* a comparison that takes the later of two rates of the same price *)
CheaperThan_orEqual(rate, other) == rate.price <= other.price

(* rate.price < arr[minIdx].price *)
CheaperThan(rate, other) == rate.price < other.price

(* rates.reduce((minIdx, rate, idx, arr) => ..., 0), from position idx on *)
RECURSIVE ReduceCheapest(_, _, _)
ReduceCheapest(rates, idx, minIdx) ==
  IF idx > Len(rates) THEN minIdx
  ELSE ReduceCheapest(rates, idx + 1,
         IF CheaperThan(rates[idx], rates[minIdx]) THEN idx ELSE minIdx)

(* [...rates].sort((a, b) => a[key] - b[key])[0]: the sort is stable, so
   the first of the rates with the least key *)
FirstLeast(rates, key) ==
  IF rates = <<>> THEN <<>>
  ELSE << rates[CHOOSE i \in 1..Len(rates) :
                  /\ \A j \in 1..Len(rates) : rates[i][key] <= rates[j][key]
                  /\ \A j \in 1..(i - 1) : rates[j][key] > rates[i][key]] >>

(* the rates with the cheapest made free; on an empty list the assignment
   to rates[0] makes a rate with a price alone *)
ZeroCheapest(rates) ==
  IF rates = <<>>
  THEN << [id |-> Undefined, price |-> 0, minDays |-> Undefined] >>
  ELSE LET cheapestIndex == ReduceCheapest(rates, 1, 1) IN
       [rates EXCEPT ![cheapestIndex].price = 0]

Shipping_calculateShipping(countryCode, orderAmount, freeShippingThreshold, zones) ==
  LET threshold == Coalesce(freeShippingThreshold, DefaultShippingThreshold)
      zone == findShippingZone(countryCode, zones)
  IN  IF zone = <<>>
      THEN [ available |-> FALSE, zoneName |-> "Inconnu", rates |-> <<>>,
             cheapestRate |-> <<>>, fastestRate |-> <<>>,
             freeShippingEligible |-> FALSE, amountForFreeShipping |-> 0 ]
      ELSE LET freeShippingEligible == orderAmount >= threshold
               rates == IF freeShippingEligible
                        THEN ZeroCheapest(zone[1].rates) ELSE zone[1].rates
           IN  [ available |-> TRUE, zoneName |-> zone[1].name, rates |-> rates,
                 cheapestRate |-> FirstLeast(rates, "price"),
                 fastestRate |-> FirstLeast(rates, "minDays"),
                 freeShippingEligible |-> freeShippingEligible,
                 amountForFreeShipping |->
                   IF freeShippingEligible THEN 0
                   ELSE round(threshold - orderAmount, 1) ]

InitShipping ==
  /\ items = <<>>
  /\ discount = <<>>
  /\ \E c \in ConfigInputs : config = Cart(c)
  /\ last = Ret("new", "void", "")
  /\ totals = <<>>
  /\ \E in \in ShippingInputs : shippingCall = <<in>>

CalculateShipping ==
  /\ shippingCall # <<>>
  /\ shippingCall[1].result = <<>>
  /\ LET in == shippingCall[1] IN
     shippingCall' =
       << [in EXCEPT !.result =
             << Shipping_calculateShipping(in.countryCode, in.orderAmount,
                  in.freeShippingThreshold, in.zones) >>] >>
  /\ UNCHANGED <<items, discount, config, last, totals>>

NextShipping == CalculateShipping

SpecShipping == InitShipping /\ [][NextShipping]_vars

----------------------------------------------------------------------------
(* Properties of the item operations, under Spec *)

(* C1: every LineItem of the cart has a quantity of at least 1 and of at most
   the stock of the product the LineItem holds, whatever product records
   addItem was called with. *)
C1_QuantityWithinStoredStock ==
  \A i \in 1..Len(items) :
    /\ items[i].quantity >= 1
    /\ items[i].quantity <= items[i].product.stock

(* C2: no two LineItems have the same product id, and a successful addItem
   of quantity q for a product id the cart holds already keeps the number of
   LineItems and adds exactly q to that LineItem and to getItemCount. *)
C2_SingleLineAccumulates ==
  /\ \A i, j \in 1..Len(items) :
       items[i].product.id = items[j].product.id => i = j
  /\ \A p \in Products, q \in Quantities :
       LET held == { i \in 1..Len(items) : items[i].product.id = p.id }
           r == addItem(cart, p, q)
       IN  (r.ret = "item" /\ held # {}) =>
             /\ Len(r.items) = Len(items)
             /\ \A i \in held : r.items[i].quantity = items[i].quantity + q
             /\ \A i \in (1..Len(items)) \ held : r.items[i] = items[i]
             /\ SumQuantity(r.items) = SumQuantity(items) + q

C2_Witness ==
  /\ last.op = "addItem" /\ last.ret = "item" /\ last.branch = "existing"
  /\ Len(items) = 2
  /\ items[1].quantity >= 2

(* C3: in every state of the cart, addItem of any product with a quantity of
   0 or less returns null and changes neither the items nor the active
   discount. *)
C3_NonPositiveQuantityRejected ==
  \A p \in Products, q \in Quantities :
    q <= 0 =>
      LET r == addItem(cart, p, q) IN
      r.ret = "null" /\ r.items = items /\ r.discount = discount

C3_Witness ==
  /\ last.op = "addItem" /\ last.ret = "null" /\ last.branch = "quantity"
  /\ items # <<>>
  /\ discount # <<>>

(* C4: addItem whose resulting quantity for the product id (the quantity held
   plus the one asked for, or the one asked for on a new line) would exceed
   product.stock returns null, updateQuantity to more than the stock of the
   item's product returns false, and both leave the items and the active
   discount as they were. *)
C4_OverStockRejected ==
  /\ \A p \in Products, q \in Quantities :
       LET held == { i \in 1..Len(items) : items[i].product.id = p.id }
           resulting == IF held = {} THEN q
                        ELSE items[CHOOSE i \in held : TRUE].quantity + q
           r == addItem(cart, p, q)
       IN  resulting > p.stock =>
             (r.ret = "null" /\ r.items = items /\ r.discount = discount)
  /\ \A i \in 1..Len(items), q \in Quantities :
       LET r == updateQuantity(cart, items[i].product.id, q) IN
       q > items[i].product.stock =>
         (r.ret = "false" /\ r.items = items /\ r.discount = discount)

C4_Witness ==
  /\ last.op = "addItem" /\ last.ret = "null" /\ last.branch = "stock_existing"
  /\ items # <<>>
  /\ discount # <<>>

----------------------------------------------------------------------------
(* Properties of the discount and of the totals, under SpecTotals *)

(* C5: in every state of the cart, applyDiscount of a discount that is
   inactive, or whose expiry instant is earlier than now, or whose minimum
   order amount is greater than the subtotal before discount, returns false
   and leaves the active discount (or its absence) and the items as they
   were. *)
C5_InvalidDiscountRejected ==
  \A d \in Discounts, now \in Times :
    LET r == applyDiscount(cart, d, now) IN
    ( \/ ~d.isActive
      \/ (d.endDate # Undefined /\ d.endDate < now)
      \/ (d.minOrderAmount # Undefined /\ d.minOrderAmount > SumPrice(items)) )
    => (r.ret = "false" /\ r.discount = discount /\ r.items = items)

C5_Witness ==
  /\ last.op = "applyDiscount" /\ last.ret = "false" /\ last.branch = "minimum"
  /\ items # <<>>
  /\ discount # <<>>

(* C6: from every state of the cart, clear leads to a cart with no LineItem
   (isEmpty true, getItemCount 0) and no active discount (a discountAmount
   of 0, a shipping decided by the threshold alone), with the configuration
   given at construction. *)
C6_ClearEmptiesCart ==
  /\ LET r == clear(cart)
         after == [items |-> r.items, discount |-> r.discount, config |-> r.config]
         t == getTotals(after)
     IN  /\ r.items = <<>>
         /\ isEmpty(after)
         /\ getItemCount(after) = 0
         /\ r.discount = <<>>
         /\ t.discountAmount = 0
         /\ t.shipping = IF 0 >= config.freeShippingThreshold
                         THEN 0 ELSE config.shippingCost
         /\ r.config = config
  /\ last.op = "clear" => (items = <<>> /\ discount = <<>>)
  /\ \E c \in ConfigInputs : config = Cart(c)

C6_Witness ==
  /\ last.op = "clear"
  /\ isEmpty(cart)
  /\ getTotals(cart).discountAmount = 0
  /\ getTotals(cart).shipping = config.shippingCost

(* C7: getTotals compares the free-shipping threshold with subtotal minus
   discountAmount, not with the subtotal before discount, and computes the
   tax on subtotal minus discountAmount plus shipping:
   taxAmount = round2((subtotal - discountAmount + shipping) * taxRate / 100)
   and total = round2(subtotal - discountAmount + shipping + taxAmount). *)
C7_DiscountBeforeShippingBeforeTax ==
  LET t == getTotals(cart)
      afterDiscount == t.subtotal - t.discountAmount
  IN  /\ t.taxAmount = round((afterDiscount + t.shipping) * config.taxRate, 100)
      /\ t.total = round(afterDiscount + t.shipping + t.taxAmount, 1)
      /\ ( /\ t.subtotal >= config.freeShippingThreshold
           /\ afterDiscount < config.freeShippingThreshold
           /\ (discount = <<>> \/ discount[1].type # "free_shipping") )
         => t.shipping = config.shippingCost

C7_Witness ==
  LET t == getTotals(cart) IN
  /\ last.op = "getTotals"
  /\ t.subtotal >= config.freeShippingThreshold
  /\ t.subtotal - t.discountAmount < config.freeShippingThreshold
  /\ t.discountAmount > 0
  /\ t.shipping = config.shippingCost
  /\ t.taxAmount # round(t.subtotal * config.taxRate, 100)

(* C8: the shipping of getTotals is 0 when the active discount is of kind
   free_shipping, otherwise 0 when subtotal minus discountAmount reaches the
   free-shipping threshold, otherwise the configured shippingCost. *)
C8_ShippingCases ==
  LET t == getTotals(cart) IN
  t.shipping =
    IF discount # <<>> /\ discount[1].type = "free_shipping" THEN 0
    ELSE IF t.subtotal - t.discountAmount >= config.freeShippingThreshold THEN 0
    ELSE config.shippingCost

C8_Witness ==
  LET t == getTotals(cart) IN
  /\ last.op = "getTotals"
  /\ discount # <<>> /\ discount[1].type = "free_shipping"
  /\ items # <<>>
  /\ t.subtotal < config.freeShippingThreshold
  /\ t.shipping = 0

(* C9: whenever the active discount has a maximum-discount cap set (any cap
   of 0 or more), the discountAmount of getTotals is at most that cap. *)
C9_DiscountWithinCap ==
  (discount # <<>> /\ discount[1].maxDiscountAmount # Undefined) =>
    getTotals(cart).discountAmount <= discount[1].maxDiscountAmount

(* C10: with an active fixed_amount discount the discountAmount of getTotals
   is min(value, subtotal) before any cap, so that it never exceeds the
   subtotal and neither subtotal minus discountAmount nor total is
   negative. *)
C10_FixedAmountWithinSubtotal ==
  (discount # <<>> /\ discount[1].type = "fixed_amount") =>
    LET t == getTotals(cart)
        d == discount[1]
        least == IF d.value <= t.subtotal THEN d.value ELSE t.subtotal
    IN  /\ d.maxDiscountAmount = Undefined => t.discountAmount = least
        /\ t.discountAmount <= least
        /\ t.discountAmount <= t.subtotal
        /\ t.subtotal - t.discountAmount >= 0
        /\ t.total >= 0

C10_Witness ==
  LET t == getTotals(cart) IN
  /\ last.op = "getTotals"
  /\ discount # <<>> /\ discount[1].type = "fixed_amount"
  /\ items # <<>>
  /\ discount[1].value > t.subtotal
  /\ t.discountAmount = t.subtotal
  /\ t.total > 0

----------------------------------------------------------------------------
(* Properties of the reads of the cart *)

(* C11: a getTotals call changes neither the items, nor a quantity, nor the
   active discount, nor the configuration, and a getTotals call that follows
   a getTotals call with no other call in between returns the same record. *)
C11_Step ==
  /\ last'.op = "getTotals" =>
       (items' = items /\ discount' = discount /\ config' = config)
  /\ (last.op = "getTotals" /\ last'.op = "getTotals") => totals' = totals

C11_GetTotalsIsARead == [][C11_Step]_vars

C11_Witness ==
  /\ last.op = "getTotals"
  /\ totals = <<getTotals(cart)>>
  /\ items # <<>>
  /\ discount # <<>>
  /\ totals[1].discountAmount > 0

(* C12: whatever the caller does to the sequence getItems returned or to the
   LineItems in it (reordering, removing, changing a quantity), getItems,
   getItemCount and getTotals of the cart give what they gave before. *)
C12_GetItemsIsolated ==
  LET Same(r) ==
        LET after == [items |-> r.items, discount |-> r.discount,
                      config |-> r.config]
        IN  /\ getItems(after) = getItems(cart)
            /\ getItemCount(after) = getItemCount(cart)
            /\ getTotals(after) = getTotals(cart)
  IN  /\ Same(getItemsThenReverse(cart))
      /\ \A i \in 1..Len(items) :
           /\ Same(getItemsThenSplice(cart, i))
           /\ \A q \in Quantities : Same(getItemsThenSetQuantity(cart, i, q))

----------------------------------------------------------------------------
(* More properties of the item operations, under Spec *)

(* C13: in every state of the cart, addItem with a quantity of 1 or more and
   a product.stock of that quantity or more returns null and leaves the cart
   as it was when product.status is out_of_stock or discontinued, and is not
   rejected on account of the status when it is available or preorder: it
   then fails only on a line held already whose quantity would exceed
   product.stock. *)
C13_StatusDecidesAdd ==
  \A p \in Products, q \in Quantities :
    (q >= 1 /\ p.stock >= q) =>
      LET r == addItem(cart, p, q)
          held == { i \in 1..Len(items) : items[i].product.id = p.id }
      IN  IF p.status \in {"out_of_stock", "discontinued"}
          THEN r.ret = "null" /\ r.items = items /\ r.discount = discount
          ELSE /\ r.branch # "status"
               /\ r.ret = "null" =>
                    \E i \in held : items[i].quantity + q > p.stock
               /\ held = {} => (r.ret = "item" /\ Len(r.items) = Len(items) + 1)

C13_Witness ==
  /\ last.op = "addItem" /\ last.ret = "null" /\ last.branch = "status"
  /\ Len(items) = 2
  /\ items[1].product.status = "available"
  /\ items[2].product.status = "preorder"
  /\ discount # <<>>

(* C14: in every state of the cart that holds a LineItem of the product id,
   updateQuantity with a quantity of 0 or less returns true and does what
   removeItem does: that LineItem is deleted, the other LineItems keep their
   quantities and their order, and the active discount is unchanged. *)
C14_NonPositiveUpdateRemoves ==
  \A i \in 1..Len(items), q \in Quantities :
    q <= 0 =>
      LET id == items[i].product.id
          r == updateQuantity(cart, id, q)
          first == CHOOSE k \in 1..Len(items) :
                     /\ items[k].product.id = id
                     /\ \A j \in 1..(k - 1) : items[j].product.id # id
      IN  /\ r.ret = "true"
          /\ r.items = SubSeq(items, 1, first - 1)
                         \o SubSeq(items, first + 1, Len(items))
          /\ r.discount = discount
          /\ r.items = removeItem(cart, id).items
          /\ r.discount = removeItem(cart, id).discount

C14_Witness ==
  /\ last.op = "updateQuantity" /\ last.ret = "true" /\ last.branch = "removed"
  /\ Len(items) = 1
  /\ items[1].product.id = "2"
  /\ discount # <<>>

----------------------------------------------------------------------------
(* More properties of the totals, under SpecTotals *)

(* n is num/den rounded to the nearest integer, a half going up *)
IsHalfUp(n, num, den) ==
  2 * den * n <= 2 * num + den /\ 2 * num + den < 2 * den * (n + 1)

(* C15: with amounts in cents and every rounding half-up to the cent,
   getTotals returns subtotal = round2(sum of price x quantity),
   discountAmount = round2(computed discount), taxAmount = round2(taxable x
   taxRate / 100) and total = round2(taxable + taxAmount), taxable being the
   unrounded subtotal - discountAmount + shipping.  With taxRate 20,
   threshold 50 and shipping 4.90, one product of 29.90 in quantity 2 gives
   59.80, 0, 0, 11.96, 71.76 and 2 items, and with a 10 % discount 5.98, 0,
   10.76 and 64.58. *)
C15_RoundedTotals ==
  LET t == getTotals(cart)
      sum == SumPrice(items)
      taxable == sum - t.discountAmount + t.shipping
      readme == /\ Len(items) = 1
                /\ items[1].product.price = 2990
                /\ items[1].quantity = 2
                /\ config.taxRate = 20
                /\ config.freeShippingThreshold = 5000
                /\ config.shippingCost = 490
  IN  /\ IsHalfUp(t.subtotal, sum, 1)
      /\ IsHalfUp(t.taxAmount, taxable * config.taxRate, 100)
      /\ IsHalfUp(t.total, taxable + t.taxAmount, 1)
      /\ discount = <<>> => t.discountAmount = 0
      /\ (discount # <<>> /\ discount[1].maxDiscountAmount = Undefined) =>
           CASE discount[1].type = "percentage" ->
                  IsHalfUp(t.discountAmount, sum * discount[1].value, 100)
             [] discount[1].type = "fixed_amount" ->
                  t.discountAmount = IF discount[1].value <= sum
                                     THEN discount[1].value ELSE sum
             [] discount[1].type = "free_shipping" -> t.discountAmount = 0
      /\ (readme /\ discount = <<>>) =>
           t = [subtotal |-> 5980, discountAmount |-> 0, shipping |-> 0,
                taxAmount |-> 1196, total |-> 7176, itemCount |-> 2,
                currency |-> config.currency]
      /\ ( /\ readme
           /\ discount # <<>>
           /\ discount[1].type = "percentage"
           /\ discount[1].value = 10
           /\ discount[1].maxDiscountAmount = Undefined ) =>
           t = [subtotal |-> 5980, discountAmount |-> 598, shipping |-> 0,
                taxAmount |-> 1076, total |-> 6458, itemCount |-> 2,
                currency |-> config.currency]

C15_Witness ==
  /\ last.op = "getTotals"
  /\ Len(items) = 1 /\ items[1].product.price = 2990 /\ items[1].quantity = 2
  /\ config.taxRate = 20 /\ config.freeShippingThreshold = 5000
  /\ discount # <<>>
  /\ discount[1].type = "percentage" /\ discount[1].value = 10
  /\ discount[1].maxDiscountAmount = Undefined
  /\ totals[1].discountAmount = 598
  /\ totals[1].taxAmount = 1076
  /\ totals[1].total = 6458

----------------------------------------------------------------------------
(* Properties of the shipping module, under SpecShipping *)

(* C16: for a zone of at least one rate and an order amount that reaches the
   free-shipping threshold, calculateShipping returns the rates of the zone
   with the price of exactly one set to 0: the rate of the lowest price, the
   first of them in the list when several have it; every other rate keeps
   its price and its place.  Below the threshold no rate is changed. *)
C16_CheapestRateFreed ==
  (shippingCall # <<>> /\ shippingCall[1].result # <<>>) =>
    LET in == shippingCall[1]
        out == in.result[1]
        code == IF in.countryCode = "fr" THEN "FR" ELSE in.countryCode
        zone == IF code \in in.zones[1].countries THEN in.zones[1]
                ELSE in.zones[Len(in.zones)]
        found == code \in in.zones[1].countries
                   \/ "*" \in in.zones[Len(in.zones)].countries
        orig == zone.rates
        threshold == IF in.freeShippingThreshold = Undefined
                     THEN 5000 ELSE in.freeShippingThreshold
    IN  (found /\ Len(orig) >= 1) =>
          IF in.orderAmount >= threshold
          THEN \E k \in 1..Len(orig) :
                 /\ \A j \in 1..Len(orig) : orig[k].price <= orig[j].price
                 /\ \A j \in 1..(k - 1) : orig[j].price > orig[k].price
                 /\ Len(out.rates) = Len(orig)
                 /\ out.rates[k] = [orig[k] EXCEPT !.price = 0]
                 /\ \A j \in (1..Len(orig)) \ {k} : out.rates[j] = orig[j]
          ELSE out.rates = orig

C16_Witness ==
  /\ shippingCall # <<>>
  /\ shippingCall[1].result # <<>>
  /\ LET in == shippingCall[1]
         orig == in.zones[1].rates
         out == in.result[1]
     IN  /\ in.countryCode = "fr"
         /\ in.orderAmount = 6000 /\ in.freeShippingThreshold = 6000
         /\ Len(orig) = 3
         /\ orig[1].price = 990 /\ orig[2].price = 390 /\ orig[3].price = 390
         /\ out.rates[2].price = 0
         /\ out.rates[3].price = 390
         /\ out.freeShippingEligible

----------------------------------------------------------------------------
(* Properties of the life of the discount, under SpecTotals *)

(* C17: the eligibility of a discount is checked by applyDiscount alone: no
   addItem, updateQuantity or removeItem call, accepted or refused, changes
   or clears the active discount; getTotals applies the active discount
   whatever its minimum order amount and its expiry are, also when the
   subtotal has fallen below the minimum; and the active discount changes
   only in an accepted applyDiscount, a removeDiscount or a clear. *)
C17_ItemCallsKeepDiscount ==
  /\ \A p \in Products, q \in Quantities :
       addItem(cart, p, q).discount = discount
  /\ \A id \in ProductIds :
       /\ removeItem(cart, id).discount = discount
       /\ \A q \in Quantities : updateQuantity(cart, id, q).discount = discount
  /\ discount # <<>> =>
       getTotals(cart) =
         getTotals([cart EXCEPT !.discount =
                      << [discount[1] EXCEPT !.minOrderAmount = Undefined,
                                             !.endDate = Undefined] >>])

C17_DiscountChange ==
  discount' # discount =>
    \/ last'.op = "applyDiscount" /\ last'.ret = "true"
    \/ last'.op = "removeDiscount"
    \/ last'.op = "clear"

C17_EligibilityAtApplicationOnly ==
  []C17_ItemCallsKeepDiscount /\ [][C17_DiscountChange]_vars

C17_Witness ==
  /\ last.op \in {"removeItem", "updateQuantity"}
  /\ last.ret = "true" /\ last.branch = "removed"
  /\ items # <<>>
  /\ discount # <<>>
  /\ discount[1].minOrderAmount = 5000
  /\ SumPrice(items) < discount[1].minOrderAmount
  /\ getTotals(cart).discountAmount > 0

----------------------------------------------------------------------------
(* Properties of the total around applyDiscount, under SpecEdge *)

(* the cart that an accepted or refused applyDiscount leaves *)
C18_After(d, now) ==
  LET o == applyDiscount(cart, d, now)
  IN  [items |-> o.items, discount |-> o.discount, config |-> o.config]

C18_Accepted(d, now) ==
  /\ d.type \in {"percentage", "fixed_amount"}
  /\ applyDiscount(cart, d, now).ret = "true"

(* C18 as stated: for every cart with no active discount and every
   percentage or fixed_amount discount that applyDiscount accepts, the total
   of getTotals after the discount is applied is not greater than the total
   of getTotals just before. *)
C18_DiscountNeverRaisesTotal ==
  discount = <<>> =>
    \A d \in Discounts, now \in Times :
      C18_Accepted(d, now) =>
        getTotals(C18_After(d, now)).total <= getTotals(cart).total

(* C18 amended: for every cart with no active discount and every percentage
   or fixed_amount discount that applyDiscount accepts, the total of
   getTotals after the discount is applied is not greater than the total
   just before whenever the shipping charged is the same before and after,
   that is unless the discount takes the amount after discount from at or
   above the free-shipping threshold to below it. *)
C18_DiscountLowersTotalAtEqualShipping ==
  discount = <<>> =>
    \A d \in Discounts, now \in Times :
      LET before == getTotals(cart)
          after == getTotals(C18_After(d, now))
      IN  (C18_Accepted(d, now) /\ after.shipping = before.shipping) =>
            after.total <= before.total

C18_Witness ==
  /\ last.op = "applyDiscount" /\ last.ret = "true"
  /\ discount # <<>>
  /\ discount[1].type \in {"percentage", "fixed_amount"}
  /\ LET before == getTotals([cart EXCEPT !.discount = <<>>])
         after == getTotals(cart)
     IN  /\ before.shipping = 0 /\ after.shipping = 0
         /\ after.discountAmount > 0
         /\ after.total < before.total

====
